---- MODULE Spec2Model ----
(***************************************************************************)
(* A model of the PVL label encoder (src/pvl/encoder.py) and of the        *)
(* validation driver that consumes it (src/pvl/pvl_validate.py).           *)
(*                                                                         *)
(* Byte strings are sequences of one-byte tokens ("A", " ", "\n", ...).    *)
(* Text (keys, names, string values, unit labels) is a sequence of         *)
(* characters; a character outside ASCII is written by its code point      *)
(* ("U+00E9") and occupies two bytes ("0xC3", "0xA9") once encoded.        *)
(***************************************************************************)
EXTENDS Integers, Sequences, FiniteSets, TLC

VARIABLES
    dialect,          \* class of the encoder instance in use
    assignment_col,   \* PDSLabelEncoder instance attribute self.assignment_col
    module,           \* module[c]: the tree handed to encode call c
    pc,               \* pc[c]: position of encode call c
    todo,             \* todo[c]: the writes call c has still to make, in order
    stream,           \* stream[c]: bytes written so far to the sink of call c
    error,            \* error[c]: the exception call c ended with, or NoError
    value,            \* the value handed to encode_value
    encoded,          \* what encode_value returned or raised, or Pending
    files,            \* main: the texts of args.file
    fileIdx,          \* main: index of the file being processed
    flavorIdx,        \* main: index of the dialect profile being processed
    results,          \* main: results of the current file, per profile
    results_list,     \* main: results of the files already finished
    dialects,         \* pvl_validate.dialects: the encoder class of each profile
    mainpc            \* main: "idle", "loop", "reported" or "aborted"

vars == <<dialect, assignment_col, module, pc, todo, stream, error, value,
          encoded, files, fileIdx, flavorIdx, results, results_list, dialects,
          mainpc>>

encVars == <<dialect, assignment_col, module, pc, todo, stream, error>>
valVars == <<value, encoded>>
mainVars == <<files, fileIdx, flavorIdx, results, results_list, dialects, mainpc>>

-----------------------------------------------------------------------------
(* Bounds of the model *)

\* most entries in a whole tree (all nesting levels together)
MaxNodes == 3
\* most entries in each tree of two interleaved calls
MaxSharedNodes == 1
\* largest integer value handed to encode_value
MaxInt == 11
\* most elements of a sequence or set handed to encode_value
MaxElems == 2
\* most files handed to main
MaxFiles == 2

-----------------------------------------------------------------------------
(* Byte-string helpers (Python bytes operations the encoder uses) *)

RECURSIVE Concat(_)
\* b''.join of a sequence of byte strings
Concat(seqs) == IF seqs = <<>> THEN <<>> ELSE Head(seqs) \o Concat(Tail(seqs))

RECURSIVE join(_, _)
\* sep.join(seqs)
join(sep, seqs) ==
    IF seqs = <<>> THEN <<>>
    ELSE IF Len(seqs) = 1 THEN Head(seqs)
    ELSE Head(seqs) \o sep \o join(sep, Tail(seqs))

\* n * unit  (bytes repetition)
Times(n, unit) ==
    [i \in 1..(n * Len(unit)) |-> unit[((i - 1) % Len(unit)) + 1]]

\* bytes.ljust(width): pad with spaces on the right, never truncate
ljust(s, width) ==
    IF Len(s) >= width THEN s ELSE s \o [i \in 1..(width - Len(s)) |-> " "]

\* one character of text as UTF-8 bytes: ASCII is one byte, U+00E9 is two
Utf8Char(ch) == IF ch = "U+00E9" THEN <<"0xC3", "0xA9">> ELSE <<ch>>

\* text.encode('utf-8')
encode_utf8(text) == Concat([i \in 1..Len(text) |-> Utf8Char(text[i])])

Digit(d) == <<"0", "1", "2", "3", "4", "5", "6", "7", "8", "9">>[d + 1]

RECURSIVE StrNat(_)
StrNat(n) == IF n < 10 THEN <<Digit(n)>> ELSE StrNat(n \div 10) \o <<Digit(n % 10)>>

\* str(n) for an int
StrInt(n) == IF n < 0 THEN <<"-">> \o StrNat(-n) ELSE StrNat(n)

\* str(x) for the float x = twice / 2
StrFloat(twice) ==
    LET a == IF twice < 0 THEN -twice ELSE twice
    IN  (IF twice < 0 THEN <<"-">> ELSE <<>>)
        \o StrNat(a \div 2) \o <<".">> \o (IF a % 2 = 0 THEN <<"0">> ELSE <<"5">>)

-----------------------------------------------------------------------------
(* The data model: values of a label *)

Null == [kind |-> "null"]
Bool(b) == [kind |-> "bool", b |-> b]
Integer(n) == [kind |-> "int", n |-> n]
\* the float twice / 2 (0.5, 1.0, 1.5, ...)
Float(twice) == [kind |-> "float", twice |-> twice]
Text(s) == [kind |-> "str", s |-> s]
\* Units(value, units)
Units(v, u) == [kind |-> "units", value |-> v, units |-> u]
List(es) == [kind |-> "list", elems |-> es]
\* a set, given with the order in which the host iterates over it
SetOf(es) == [kind |-> "set", elems |-> es]
\* a value of no supported kind (a tuple, bytes, a date, ...), with its repr
Other(r) == [kind |-> "other", repr |-> r]
\* PVLGroup(items): a dict tagged as a group
Group(items) == [kind |-> "group", items |-> items]
\* a plain dict: an ordered sequence of <<key, value>> pairs
Object(items) == [kind |-> "dict", items |-> items]

\* isinstance(value, dict): PVLGroup is a dict too
IsDict(v) == v.kind \in {"group", "dict"}

-----------------------------------------------------------------------------
(* Class attributes of the encoders: encoder.py lines 8-18, 158-162, 176-180 *)

Dialects == {"Default", "Cube", "PDS3"}

group(d) ==
    CASE d = "Default" -> <<"B","E","G","I","N","_","G","R","O","U","P">>
      [] d = "Cube"    -> <<"G","r","o","u","p">>
      [] d = "PDS3"    -> <<"G","R","O","U","P">>

end_group(d) ==
    CASE d = "Default" -> <<"E","N","D","_","G","R","O","U","P">>
      [] d = "Cube"    -> <<"E","n","d","_","G","r","o","u","p">>
      [] d = "PDS3"    -> <<"E","N","D">>

object(d) ==
    CASE d = "Default" -> <<"B","E","G","I","N","_","O","B","J","E","C","T">>
      [] d = "Cube"    -> <<"O","b","j","e","c","t">>
      [] d = "PDS3"    -> <<"O","B","J","E","C","T">>

end_object(d) ==
    CASE d = "Default" -> <<"E","N","D","_","O","B","J","E","C","T">>
      [] d = "Cube"    -> <<"E","n","d","_","O","b","j","e","c","t">>
      [] d = "PDS3"    -> <<"E","N","D">>

end_statement(d) ==
    CASE d = "Default" -> <<"E","N","D">>
      [] d = "Cube"    -> <<"E","n","d">>
      [] d = "PDS3"    -> <<"E","N","D">>

null == <<"N","U","L","L">>
true == <<"T","R","U","E">>
false == <<"F","A","L","S","E">>
assignment == <<" ", "=", " ">>
indentation == <<" ", " ">>
newline == <<"\n">>

-----------------------------------------------------------------------------
(* Value encoding: encoder.py lines 97-154 *)

\* a call returned the bytes text
Ok(text) == [ok |-> TRUE, text |-> text]
\* a call raised exception exc with message msg
Raised(exc, msg) == [ok |-> FALSE, exc |-> exc, msg |-> msg]

RECURSIVE repr(_)
\* Python's repr(value), for the values that can reach default()
repr(v) ==
    CASE v.kind = "other" -> v.repr
      [] v.kind = "null"  -> <<"N","o","n","e">>
      [] v.kind = "bool"  -> IF v.b THEN <<"T","r","u","e">> ELSE <<"F","a","l","s","e">>
      [] v.kind = "int"   -> StrInt(v.n)
      [] v.kind = "float" -> StrFloat(v.twice)
      [] v.kind = "str"   -> <<"'">> \o v.s \o <<"'">>
      [] v.kind = "units" ->
            <<"U","n","i","t","s","(","v","a","l","u","e","=">> \o repr(v.value)
            \o <<",", " ", "u","n","i","t","s","=","'">> \o v.units \o <<"'", ")">>

\* _strings.needs_quotes: text holding white space has to be quoted
needs_quotes(s) == \E i \in 1..Len(s) : s[i] = " "

\* _strings.quote_string
quote_string(s) == <<"\"">> \o encode_utf8(s) \o <<"\"">>

\* default: raise TypeError(repr(value) + " is not serializable")
default(v) ==
    Raised("TypeError", repr(v) \o <<" ","i","s"," ","n","o","t"," ",
                                     "s","e","r","i","a","l","i","z","a","b","l","e">>)

encode_units(u) == <<"<">> \o encode_utf8(u) \o <<">">>

encode_null(v) == null

\* str(value).encode('utf-8'); str(True) is "True", str(False) is "False"
encode_number(v) ==
    CASE v.kind = "int"   -> StrInt(v.n)
      [] v.kind = "float" -> StrFloat(v.twice)
      [] v.kind = "bool"  -> IF v.b THEN <<"T","r","u","e">> ELSE <<"F","a","l","s","e">>

encode_string(v) == IF needs_quotes(v.s) THEN quote_string(v.s) ELSE encode_utf8(v.s)

encode_bool(v) == IF v.b THEN true ELSE false

RECURSIVE encode_value(_)

\* b', '.join([self.encode_value(v) for v in values]); the first element that
\* raises ends the comprehension
encode_sequence(values) ==
    LET rs == [i \in 1..Len(values) |-> encode_value(values[i])]
        bad == {i \in 1..Len(values) : ~rs[i].ok}
    IN  IF bad # {}
        THEN rs[CHOOSE i \in bad : \A j \in bad : i <= j]
        ELSE Ok(join(<<",", " ">>, [i \in 1..Len(values) |-> rs[i].text]))

encode_list(v) ==
    LET r == encode_sequence(v.elems)
    IN  IF r.ok THEN Ok(<<"(">> \o r.text \o <<")">>) ELSE r

encode_set(v) ==
    LET r == encode_sequence(v.elems)
    IN  IF r.ok THEN Ok(<<"{">> \o r.text \o <<"}">>) ELSE r

\* The isinstance tests in source order. bool is a subclass of int, so
\* isinstance(value, (int, float)) holds of True and False.
encode_simple_value(v) ==
    IF v.kind = "str" THEN Ok(encode_string(v))
    ELSE IF v.kind \in {"int", "float", "bool"} THEN Ok(encode_number(v))
    ELSE IF v.kind = "null" THEN Ok(encode_null(v))
    ELSE IF v.kind = "bool" THEN Ok(encode_bool(v))
    ELSE IF v.kind = "list" THEN encode_list(v)
    ELSE IF v.kind = "set" THEN encode_set(v)
    ELSE default(v)

encode_value(v) ==
    IF v.kind = "units"
    THEN LET units == encode_units(v.units)
             r == encode_simple_value(v.value)
         IN  IF r.ok THEN Ok(r.text \o <<" ">> \o units) ELSE r
    ELSE encode_simple_value(v)

-----------------------------------------------------------------------------
(* The traversal: encoder.py lines 20-95 and the overrides of the two      *)
(* subclasses. A traversal is the sequence of writes it makes, in order:   *)
(*   "raw"   a call of encode_raw_assignment(key, value, level),           *)
(*   "bare"  the three writes of a Cube end line (indent, token, newline), *)
(*   "raise" the exception that ends the traversal.                        *)
(* What a "raw" call writes is decided when it runs (the PDS3 override     *)
(* reads self.assignment_col at that moment).                              *)

RawOp(key, val, level) == [op |-> "raw", key |-> key, val |-> val, level |-> level]
BareOp(token, level) == [op |-> "bare", token |-> token, level |-> level]
RaiseOp(r) == [op |-> "raise", exc |-> r.exc, msg |-> r.msg]

\* the traversal ops ended by an exception
Raises(ops) == ops # <<>> /\ ops[Len(ops)].op = "raise"

\* indent: level * self.indentation
indent(level) == Times(level, indentation)

\* a faulty encode_raw_assignment: the indent is left out
encode_raw_assignmentNoIndent(d, key, val, level, col) ==
    key \o assignment \o val \o newline

\* the bytes one encode_raw_assignment call writes; col is self.assignment_col
\* as the call reads it (PDSLabelEncoder only)
encode_raw_assignment(d, key, val, level, col) ==
    IF d = "PDS3"
    THEN ljust(Times(level, indentation) \o key, col) \o assignment \o val \o newline
    ELSE indent(level) \o key \o assignment \o val \o newline

\* a faulty encode_assignment: the key and the assignment token are written
\* before the value is encoded
encode_assignmentKeyFirst(d, key, val, level) ==
    LET r == encode_value(val)
    IN  IF r.ok THEN <<RawOp(encode_utf8(key), r.text, level)>>
        ELSE <<RawOp(encode_utf8(key), <<>>, level), RaiseOp(r)>>

\* encode_value(value) is evaluated before encode_raw_assignment is entered
encode_assignment(d, key, val, level) ==
    LET r == encode_value(val)
    IN  IF r.ok THEN <<RawOp(encode_utf8(key), r.text, level)>>
        ELSE <<RaiseOp(r)>>

encode_group_begin(d, key, val, level) ==
    <<RawOp(group(d), encode_utf8(key), level)>>

\* a faulty encode_group_end: no close line at all
encode_group_endMissing(d, key, val, level) == <<>>

\* a faulty encode_group_end: the Cube override is missing
encode_group_endRepeatName(d, key, val, level) ==
    <<RawOp(end_group(d), encode_utf8(key), level)>>

\* IsisCubeLabelEncoder overrides it with a bare end line
encode_group_end(d, key, val, level) ==
    IF d = "Cube"
    THEN <<BareOp(end_group(d), level)>>
    ELSE <<RawOp(end_group(d), encode_utf8(key), level)>>

encode_object_begin(d, key, val, level) ==
    <<RawOp(object(d), encode_utf8(key), level)>>

\* IsisCubeLabelEncoder overrides it with a bare end line
encode_object_end(d, key, val, level) ==
    IF d = "Cube"
    THEN <<BareOp(end_object(d), level)>>
    ELSE <<RawOp(end_object(d), encode_utf8(key), level)>>

RECURSIVE encode_block(_, _, _)

encode_group(d, key, val, level) ==
    LET body == encode_block(d, val.items, level + 1)
    IN  encode_group_begin(d, key, val, level) \o body
        \o (IF Raises(body) THEN <<>> ELSE encode_group_end(d, key, val, level))

encode_object(d, key, val, level) ==
    LET body == encode_block(d, val.items, level + 1)
    IN  encode_object_begin(d, key, val, level) \o body
        \o (IF Raises(body) THEN <<>> ELSE encode_object_end(d, key, val, level))

encode_statement(d, key, val, level) ==
    IF val.kind = "group" THEN encode_group(d, key, val, level)
    ELSE IF IsDict(val) THEN encode_object(d, key, val, level)
    ELSE encode_assignment(d, key, val, level)

RECURSIVE encode_blockReversed(_, _, _)
\* a faulty encode_block: the pairs are visited last to first
encode_blockReversed(d, block, level) ==
    IF block = <<>> THEN <<>>
    ELSE LET n == Len(block)
             last == encode_statement(d, block[n][1], block[n][2], level)
         IN  IF Raises(last) THEN last
             ELSE last \o encode_blockReversed(d, SubSeq(block, 1, n - 1), level)

\* for key, value in six.iteritems(block): every pair, in insertion order
encode_block(d, block, level) ==
    IF block = <<>> THEN <<>>
    ELSE LET first == encode_statement(d, Head(block)[1], Head(block)[2], level)
         IN  IF Raises(first) THEN first
             ELSE first \o encode_block(d, Tail(block), level)

-----------------------------------------------------------------------------
(* The PDS3 column pre-pass: encoder.py lines 182-193 *)

ColOk(n) == [ok |-> TRUE, col |-> n]

Max2(a, b) == IF a >= b THEN a ELSE b

RECURSIVE _detect_assignment_col(_, _)

_key_length(key, val, ind) ==
    LET length == ind + Len(key)
    IN  IF IsDict(val)
        THEN LET inner == _detect_assignment_col(val.items, ind + Len(indentation))
             IN  IF inner.ok THEN ColOk(Max2(length, inner.col)) ELSE inner
        ELSE ColOk(length)

\* max(...) over the items of block; max() of no items raises ValueError
_detect_assignment_col(block, ind) ==
    LET ls == [i \in 1..Len(block) |-> _key_length(block[i][1], block[i][2], ind)]
        bad == {i \in 1..Len(block) : ~ls[i].ok}
    IN  IF block = <<>>
        THEN Raised("ValueError",
                    <<"m","a","x","(",")"," ","a","r","g"," ","i","s"," ","a","n"," ",
                      "e","m","p","t","y"," ","s","e","q","u","e","n","c","e">>)
        ELSE IF bad # {} THEN ls[CHOOSE i \in bad : \A j \in bad : i <= j]
        ELSE ColOk(CHOOSE m \in {ls[i].col : i \in 1..Len(block)} :
                      \A i \in 1..Len(block) : ls[i].col <= m)

-----------------------------------------------------------------------------
(* Inputs *)

K_A == <<"A">>
K_B == <<"B">>
K_X == <<"X">>
K_LONGKEY == <<"L","O","N","G","K","E","Y">>

Keys == {K_A, K_LONGKEY}

\* repr of the one-element tuple (1,)
TupleRepr == <<"(", "1", ",", ")">>

Leaves == {Integer(1), Other(TupleRepr)}

RECURSIVE BlocksOfSize(_)

\* the values that, with their key, make up exactly m entries of a tree
ValuesOfSize(m) ==
    IF m = 1
    THEN Leaves \cup {Group(<<>>), Object(<<>>)}
    ELSE {Group(b) : b \in BlocksOfSize(m - 1)} \cup {Object(b) : b \in BlocksOfSize(m - 1)}

\* the mappings that hold exactly n entries, nested ones included
BlocksOfSize(n) ==
    IF n = 0 THEN {<<>>}
    ELSE UNION {{<<<<k, v>>>> \o rest :
                    k \in Keys, v \in ValuesOfSize(m), rest \in BlocksOfSize(n - m)} :
                m \in 1..n}

BlocksUpTo(n) == UNION {BlocksOfSize(m) : m \in 0..n}

\* {"A": 1, "X": Group({"B": 2})}
ExampleGroupTree == <<<<K_A, Integer(1)>>, <<K_X, Group(<<<<K_B, Integer(2)>>>>)>>>>
\* {"A": 1, "LONGKEY": 2}
ExampleAlignTree == <<<<K_A, Integer(1)>>, <<K_LONGKEY, Integer(2)>>>>

ExampleTrees ==
    {ExampleGroupTree, ExampleAlignTree,
     <<<<K_A, Bool(TRUE)>>, <<K_B, Units(Integer(1), <<"k","m">>)>>>>,
     <<<<K_A, Null>>, <<K_X, Object(<<<<K_B, List(<<Integer(1), Other(TupleRepr)>>)>>>>)>>>>,
     <<<<K_X, Object(<<<<K_A, Group(<<<<K_B, Object(<<>>)>>, <<K_B, Text(<<"T">>)>>>>)>>>>)>>,
       <<K_X, Group(<<>>)>>>>}

Trees == BlocksUpTo(MaxNodes) \cup ExampleTrees

SharedTrees == BlocksUpTo(MaxSharedNodes) \cup {ExampleAlignTree}

Calls == {1, 2}

NoError == [ok |-> TRUE, exc |-> "", msg |-> <<>>]

-----------------------------------------------------------------------------
(* One encode call, step by step *)

\* PVLEncoder.encode and IsisCubeLabelEncoder.encode: encode_block is entered,
\* nothing precedes it
encode(c) ==
    /\ pc[c] = "encode"
    /\ dialect # "PDS3"
    /\ pc' = [pc EXCEPT ![c] = "block"]
    /\ todo' = [todo EXCEPT ![c] = encode_block(dialect, module[c], 0)]
    /\ UNCHANGED <<dialect, assignment_col, module, stream, error>>
    /\ UNCHANGED <<valVars, mainVars>>

\* PDSLabelEncoder.encode: self.assignment_col = self._detect_assignment_col(module),
\* then the encode of the base class
pds_encode(c) ==
    /\ pc[c] = "encode"
    /\ dialect = "PDS3"
    /\ LET r == _detect_assignment_col(module[c], 0)
       IN  IF r.ok
           THEN /\ assignment_col' = r.col
                /\ pc' = [pc EXCEPT ![c] = "block"]
                /\ todo' = [todo EXCEPT ![c] = encode_block(dialect, module[c], 0)]
                /\ error' = error
           ELSE /\ assignment_col' = assignment_col
                /\ pc' = [pc EXCEPT ![c] = "failed"]
                /\ todo' = todo
                /\ error' = [error EXCEPT ![c] = r]
    /\ UNCHANGED <<dialect, module, stream>>
    /\ UNCHANGED <<valVars, mainVars>>

\* one encode_raw_assignment call of the traversal
write_raw_assignment(c) ==
    /\ pc[c] = "block"
    /\ todo[c] # <<>>
    /\ Head(todo[c]).op = "raw"
    /\ LET op == Head(todo[c])
       IN  stream' = [stream EXCEPT ![c] = @ \o
               encode_raw_assignment(dialect, op.key, op.val, op.level, assignment_col)]
    /\ todo' = [todo EXCEPT ![c] = Tail(@)]
    /\ UNCHANGED <<dialect, assignment_col, module, pc, error>>
    /\ UNCHANGED <<valVars, mainVars>>

\* IsisCubeLabelEncoder.encode_group_end / encode_object_end
write_bare_end(c) ==
    /\ pc[c] = "block"
    /\ todo[c] # <<>>
    /\ Head(todo[c]).op = "bare"
    /\ LET op == Head(todo[c])
       IN  stream' = [stream EXCEPT ![c] = @ \o indent(op.level) \o op.token \o newline]
    /\ todo' = [todo EXCEPT ![c] = Tail(@)]
    /\ UNCHANGED <<dialect, assignment_col, module, pc, error>>
    /\ UNCHANGED <<valVars, mainVars>>

\* encode_value raised inside encode_assignment: the call ends here
raise_unsupported(c) ==
    /\ pc[c] = "block"
    /\ todo[c] # <<>>
    /\ Head(todo[c]).op = "raise"
    /\ pc' = [pc EXCEPT ![c] = "failed"]
    /\ error' = [error EXCEPT ![c] = Raised(Head(todo[c]).exc, Head(todo[c]).msg)]
    /\ todo' = [todo EXCEPT ![c] = <<>>]
    /\ UNCHANGED <<dialect, assignment_col, module, stream>>
    /\ UNCHANGED <<valVars, mainVars>>

\* stream.write(self.end_statement), after encode_block has returned
write_end_statement(c) ==
    /\ pc[c] = "block"
    /\ todo[c] = <<>>
    /\ stream' = [stream EXCEPT ![c] = @ \o end_statement(dialect)]
    /\ pc' = [pc EXCEPT ![c] = "done"]
    /\ UNCHANGED <<dialect, assignment_col, module, todo, error>>
    /\ UNCHANGED <<valVars, mainVars>>

ValIdle == value = Null /\ encoded = NoError
MainIdle ==
    /\ files = <<>>
    /\ fileIdx = 0
    /\ flavorIdx = 0
    /\ results = <<>>
    /\ results_list = <<>>
    /\ dialects = <<>>
    /\ mainpc = "idle"

\* one call on a fresh encoder of any of the three classes
Init ==
    /\ dialect \in Dialects
    /\ assignment_col = -1
    /\ module \in {[c \in Calls |-> IF c = 1 THEN t ELSE <<>>] : t \in Trees}
    /\ pc = [c \in Calls |-> IF c = 1 THEN "encode" ELSE "idle"]
    /\ todo = [c \in Calls |-> <<>>]
    /\ stream = [c \in Calls |-> <<>>]
    /\ error = [c \in Calls |-> NoError]
    /\ ValIdle
    /\ MainIdle

Next ==
    \/ encode(1)
    \/ pds_encode(1)
    \/ write_raw_assignment(1)
    \/ write_bare_end(1)
    \/ raise_unsupported(1)
    \/ write_end_statement(1)

Spec == Init /\ [][Next]_vars

\* two calls on one PDSLabelEncoder instance, their steps interleaved
InitShared ==
    /\ dialect = "PDS3"
    /\ assignment_col = -1
    /\ module \in [Calls -> SharedTrees]
    /\ pc = [c \in Calls |-> "encode"]
    /\ todo = [c \in Calls |-> <<>>]
    /\ stream = [c \in Calls |-> <<>>]
    /\ error = [c \in Calls |-> NoError]
    /\ ValIdle
    /\ MainIdle

NextShared ==
    \E c \in Calls :
        \/ pds_encode(c)
        \/ write_raw_assignment(c)
        \/ raise_unsupported(c)
        \/ write_end_statement(c)

SpecShared == InitShared /\ [][NextShared]_vars

-----------------------------------------------------------------------------
(* encode_value on its own *)

KM == <<"k", "m">>

Scalars ==
    {Null, Bool(TRUE), Bool(FALSE)}
    \cup {Integer(n) : n \in -1..MaxInt}
    \cup {Float(-1), Float(3)}
    \cup {Text(<<"T">>), Text(<<"a", " ", "b">>), Text(<<"U+00E9">>)}
    \cup {Other(TupleRepr)}

Elements == Scalars \cup {Units(Integer(1), KM), Units(Bool(TRUE), KM)}

SeqsUpTo(S, n) == UNION {[1..m -> S] : m \in 0..n}

\* twice the number a value is equal to in Python (True == 1 == 1.0), or none
Numeric(v) ==
    CASE v.kind = "int"   -> {2 * v.n}
      [] v.kind = "float" -> {v.twice}
      [] v.kind = "bool"  -> {IF v.b THEN 2 ELSE 0}
      [] OTHER            -> {}

\* a set holds no two equal elements
Distinct(es) ==
    \A i, j \in 1..Len(es) :
        i < j => es[i] # es[j] /\ Numeric(es[i]) \cap Numeric(es[j]) = {}

Lists == {List(es) : es \in SeqsUpTo(Elements, MaxElems)}
Sets == {SetOf(es) : es \in {q \in SeqsUpTo(Elements, MaxElems) : Distinct(q)}}

Nested ==
    {List(<<List(<<Bool(TRUE), Integer(2)>>), Bool(FALSE)>>),
     List(<<SetOf(<<Bool(FALSE)>>), Units(Bool(FALSE), KM)>>),
     Units(List(<<Bool(TRUE)>>), KM),
     Units(Units(Integer(1), KM), KM)}

Values ==
    Scalars \cup {Units(s, KM) : s \in Scalars} \cup Lists \cup Sets \cup Nested

apply_encode_value ==
    /\ encoded = NoError
    /\ encoded' = encode_value(value)
    /\ UNCHANGED <<value, encVars, mainVars>>

EncIdle ==
    /\ assignment_col = -1
    /\ module = [c \in Calls |-> <<>>]
    /\ pc = [c \in Calls |-> "idle"]
    /\ todo = [c \in Calls |-> <<>>]
    /\ stream = [c \in Calls |-> <<>>]
    /\ error = [c \in Calls |-> NoError]

InitValue ==
    /\ dialect \in Dialects
    /\ value \in Values
    /\ encoded = NoError
    /\ EncIdle
    /\ MainIdle

NextValue == apply_encode_value

SpecValue == InitValue /\ [][NextValue]_vars

-----------------------------------------------------------------------------
(* The validation driver: pvl_validate.py lines 33-113 *)

\* what one whole encode call leaves in a fresh sink and how it ends
RECURSIVE Written(_, _, _)
Written(d, ops, col) ==
    IF ops = <<>> THEN <<>>
    ELSE LET op == Head(ops)
         IN  CASE op.op = "raw" ->
                    encode_raw_assignment(d, op.key, op.val, op.level, col)
                    \o Written(d, Tail(ops), col)
               [] op.op = "bare" ->
                    indent(op.level) \o op.token \o newline \o Written(d, Tail(ops), col)
               [] op.op = "raise" -> <<>>

\* how a call ends whose traversal ops left out in the sink
SinkOutcome(d, ops, out) ==
    IF Raises(ops)
    THEN [ok |-> FALSE, exc |-> ops[Len(ops)].exc, msg |-> ops[Len(ops)].msg, out |-> out]
    ELSE [ok |-> TRUE, exc |-> "", msg |-> <<>>, out |-> out \o end_statement(d)]

\* how a call ends whose pre-pass gave c and whose traversal is ops
CallOutcome(d, c, ops) ==
    IF ~c.ok THEN [ok |-> FALSE, exc |-> c.exc, msg |-> c.msg, out |-> <<>>]
    ELSE SinkOutcome(d, ops, Written(d, ops, c.col))

\* encoder.encode(module, stream) run alone, from its first statement to its last
encode_alone(d, tree) ==
    CallOutcome(d,
                IF d = "PDS3" THEN _detect_assignment_col(tree, 0) ELSE ColOk(-1),
                encode_block(d, tree, 0))

\* the keys of the dialects table, in its order
Flavors == <<"PDS3", "ODL", "PVL", "ISIS", "Omni">>

\* the profiles whose encoder is a class of encoder.py
KnownFlavors == {"PDS3", "PVL", "Omni"}

\* the encoder class of each of these profiles in the dialects table
FlavorEncoder(k) ==
    CASE k = "PDS3" -> "PDS3"
      [] k = "PVL"  -> "Default"
      [] k = "Omni" -> "Default"

\* ODLEncoder and ISISEncoder are imported from the encoder module, which does
\* not define them: each is one of the encoders of the core, which one is open
ImportedEncoders == Dialects

\* the dialects tables the module can hold
DialectTables ==
    {t \in [{Flavors[i] : i \in 1..Len(Flavors)} -> Dialects] :
        /\ \A k \in KnownFlavors : t[k] = FlavorEncoder(k)
        /\ t["ODL"] \in ImportedEncoders
        /\ t["ISIS"] \in ImportedEncoders}

\* a text is known by what loading it gives: a tree, or the error raised
LoadableText(t) == [loads |-> "ok", tree |-> t]
BrokenText(exc) == [loads |-> exc, tree |-> <<>>]

MainTrees ==
    {<<>>, <<<<K_A, Integer(1)>>>>, <<<<K_A, Other(TupleRepr)>>>>,
     <<<<K_A, Group(<<>>)>>>>}

Texts ==
    {LoadableText(t) : t \in MainTrees}
    \cup {BrokenText("LexerError"), BrokenText("ParseError")}

\* pvl.loads(text, **decenc)
loads(text, k) ==
    IF text.loads = "ok" THEN [ok |-> TRUE, exc |-> "", tree |-> text.tree]
    ELSE [ok |-> FALSE, exc |-> text.loads, tree |-> <<>>]

\* pvl.dumps(some_pvl, **decenc): the profile's encoder on a private sink
dumps(tree, decenc) == encode_alone(decenc, tree)

Returned(l, e) == [raised |-> FALSE, exc |-> "", loads |-> l, encodes |-> e]
Propagated(exc) == [raised |-> TRUE, exc |-> exc, loads |-> "None", encodes |-> "None"]

\* the inner try block around pvl.dumps: LexerError, ParseError and ValueError
\* are caught there; the outer handler names LexerError and ParseError only
inner_try(e) ==
    IF e.ok THEN Returned("True", "True")
    ELSE IF e.exc \in {"LexerError", "ParseError", "ValueError"}
    THEN Returned("True", "False")
    ELSE Propagated(e.exc)

\* the outer try block around pvl.loads and the inner block
outer_try(l, decenc) ==
    IF ~l.ok
    THEN IF l.exc \in {"LexerError", "ParseError"}
         THEN Returned("False", "None")
         ELSE Propagated(l.exc)
    ELSE inner_try(dumps(l.tree, decenc))

\* decenc: the encoder of the profile's entry in the dialects table
pvl_flavor(text, k, decenc) == outer_try(loads(text, k), decenc)

\* main up to the first file: the arguments are parsed, results_list is empty
main_begin ==
    /\ mainpc = "idle"
    /\ mainpc' = "loop"
    /\ fileIdx' = 1
    /\ flavorIdx' = 1
    /\ results' = <<>>
    /\ results_list' = <<>>
    /\ UNCHANGED <<files, dialects, encVars, valVars>>

\* one turn of the inner loop: results[k] = pvl_flavor(pvl_text, k, v, f, ...);
\* after the last profile the file's results are appended to results_list.
\* An exception leaving pvl_flavor leaves main too.
main_flavor ==
    /\ mainpc = "loop"
    /\ \E r \in {pvl_flavor(files[fileIdx], Flavors[flavorIdx],
                            dialects[Flavors[flavorIdx]])} :
         \E row \in {Append(results, <<Flavors[flavorIdx], <<r.loads, r.encodes>>>>)} :
           IF r.raised
           THEN /\ mainpc' = "aborted"
                /\ UNCHANGED <<fileIdx, flavorIdx, results, results_list>>
           ELSE IF flavorIdx < Len(Flavors)
           THEN /\ results' = row
                /\ flavorIdx' = flavorIdx + 1
                /\ UNCHANGED <<fileIdx, results_list, mainpc>>
           ELSE /\ results_list' = Append(results_list, <<fileIdx, row>>)
                /\ results' = <<>>
                /\ flavorIdx' = 1
                /\ IF fileIdx < Len(files)
                   THEN fileIdx' = fileIdx + 1 /\ mainpc' = mainpc
                   ELSE fileIdx' = fileIdx /\ mainpc' = "report"
    /\ UNCHANGED <<files, dialects, encVars, valVars>>

\* print(report(results_list, list(dialects.keys())))
main_report ==
    /\ mainpc = "report"
    /\ mainpc' = "reported"
    /\ UNCHANGED <<files, fileIdx, flavorIdx, results, results_list, dialects,
                   encVars, valVars>>

InitValidate ==
    /\ files \in UNION {[1..n -> Texts] : n \in 1..MaxFiles}
    /\ fileIdx = 0
    /\ flavorIdx = 0
    /\ results = <<>>
    /\ results_list = <<>>
    /\ dialects \in DialectTables
    /\ mainpc = "idle"
    /\ dialect = "Default"
    /\ EncIdle
    /\ ValIdle

NextValidate == main_begin \/ main_flavor \/ main_report

SpecValidate == InitValidate /\ [][NextValidate]_vars

-----------------------------------------------------------------------------
(* Reading an output back: lines, columns, keys *)

RECURSIVE Lines(_)
\* the output cut at its line breaks; the last piece is what follows the last one
Lines(s) ==
    IF \A i \in 1..Len(s) : s[i] # "\n" THEN <<s>>
    ELSE LET i == CHOOSE j \in 1..Len(s) :
                      s[j] = "\n" /\ \A h \in 1..(j - 1) : s[h] # "\n"
         IN  <<SubSeq(s, 1, i - 1)>> \o Lines(SubSeq(s, i + 1, Len(s)))

\* the lines written before the terminal token
BodyLines(s) == LET ls == Lines(s) IN SubSeq(ls, 1, Len(ls) - 1)

TokenStarts(line) ==
    {i \in 1..(Len(line) - 2) : line[i] = " " /\ line[i + 1] = "=" /\ line[i + 2] = " "}

HasToken(line) == TokenStarts(line) # {}

\* where the first assignment token of the line starts
TokenAt(line) == CHOOSE i \in TokenStarts(line) : \A j \in TokenStarts(line) : i <= j

\* the number of bytes in front of the assignment token
TokenColumn(line) == TokenAt(line) - 1

LeadingSpaces(line) ==
    Cardinality({i \in 1..Len(line) : \A j \in 1..i : line[j] = " "})

LevelOf(line) == LeadingSpaces(line) \div Len(indentation)

\* the line without the spaces at its ends
Stripped(line) ==
    LET inked == {i \in 1..Len(line) : line[i] # " "}
    IN  IF inked = {} THEN <<>>
        ELSE SubSeq(line, CHOOSE i \in inked : \A j \in inked : i <= j,
                          CHOOSE i \in inked : \A j \in inked : j <= i)

\* what stands left of the assignment token, without indent and padding
KeyOf(line) == Stripped(SubSeq(line, 1, TokenAt(line) - 1))

\* what stands right of the assignment token
ValueOf(line) == SubSeq(line, TokenAt(line) + 3, Len(line))

Spaces(n) == [i \in 1..n |-> " "]

RECURSIVE Supported(_)
\* the value is of a kind the value codec has a text for
Supported(v) ==
    CASE v.kind \in {"null", "bool", "int", "float", "str"} -> TRUE
      [] v.kind = "units" -> v.value.kind # "units" /\ Supported(v.value)
      [] v.kind \in {"list", "set"} -> \A i \in 1..Len(v.elems) : Supported(v.elems[i])
      [] OTHER -> FALSE

RECURSIVE AllSupported(_)
\* every leaf of the tree is of a supported kind
AllSupported(block) ==
    \A i \in 1..Len(block) :
        IF IsDict(block[i][2]) THEN AllSupported(block[i][2].items)
        ELSE Supported(block[i][2])

RECURSIVE Containers(_)
\* the number of groups and objects in the tree
Containers(block) ==
    IF block = <<>> THEN 0
    ELSE (IF IsDict(Head(block)[2]) THEN 1 + Containers(Head(block)[2].items) ELSE 0)
         + Containers(Tail(block))

-----------------------------------------------------------------------------
(* C1 *)

BoolLiteral(v) == IF v.b THEN <<"T","R","U","E">> ELSE <<"F","A","L","S","E">>

\* C1: encode_value of a Boolean is the literal TRUE or FALSE, also when the
\* Boolean is the inner value of a units wrapper or the only element of a
\* sequence or set; it is never the text the numeric path gives.
C1_BooleanLiteral ==
    encoded # NoError =>
        /\ value.kind = "bool" => encoded = Ok(BoolLiteral(value))
        /\ (value.kind = "units" /\ value.value.kind = "bool") =>
               encoded = Ok(BoolLiteral(value.value) \o <<" ", "<", "k", "m", ">">>)
        /\ (value.kind = "list" /\ Len(value.elems) = 1 /\ value.elems[1].kind = "bool") =>
               encoded = Ok(<<"(">> \o BoolLiteral(value.elems[1]) \o <<")">>)
        /\ (value.kind = "set" /\ Len(value.elems) = 1 /\ value.elems[1].kind = "bool") =>
               encoded = Ok(<<"{">> \o BoolLiteral(value.elems[1]) \o <<"}">>)

-----------------------------------------------------------------------------
(* C2 *)

RECURSIVE KeyColumns(_, _)
\* depth x indent width + length of the key, for every key of the tree
KeyColumns(block, depth) ==
    UNION {{depth * 2 + Len(block[i][1])}
           \cup (IF IsDict(block[i][2]) THEN KeyColumns(block[i][2].items, depth + 1)
                 ELSE {}) : i \in 1..Len(block)}

SharedColumn(block) ==
    CHOOSE m \in KeyColumns(block, 0) : \A n \in KeyColumns(block, 0) : n <= m

\* C2: in a finished PDS3 output every line holding the assignment token has it
\* at one column, the largest of depth x indent width + key length over all keys.
C2_OneSharedColumn ==
    (dialect = "PDS3" /\ pc[1] = "done") =>
        \A i \in 1..Len(BodyLines(stream[1])) :
            LET line == BodyLines(stream[1])[i]
            IN  HasToken(line) => TokenColumn(line) = SharedColumn(module[1])

-----------------------------------------------------------------------------
(* C3 *)

\* C3: whatever the interleaving of two calls on one PDS3 encoder, a call that
\* has ended left in its sink exactly the bytes it leaves when run alone.
C3_CallScopedColumn ==
    \A c \in Calls :
        pc[c] \in {"done", "failed"} => stream[c] = encode_alone("PDS3", module[c]).out

-----------------------------------------------------------------------------
(* C4 *)

RECURSIVE FirstUnsupported(_)
\* the unsupported value encode_value meets first inside v
FirstUnsupported(v) ==
    CASE v.kind \in {"list", "set"} ->
            LET bad == {i \in 1..Len(v.elems) : ~Supported(v.elems[i])}
            IN  FirstUnsupported(v.elems[CHOOSE i \in bad : \A j \in bad : i <= j])
      [] v.kind = "units" ->
            IF v.value.kind = "units" THEN v.value ELSE FirstUnsupported(v.value)
      [] OTHER -> v

RECURSIVE Repaired(_)
\* the tree with every unsupported leaf replaced by a null
Repaired(block) ==
    [i \in 1..Len(block) |->
        LET v == block[i][2]
        IN  <<block[i][1],
              IF IsDict(v) THEN [v EXCEPT !.items = Repaired(v.items)]
              ELSE IF Supported(v) THEN v ELSE Null>>]

RECURSIVE Preceding(_)
\* hit: the block holds a failing entry; n: the lines of the entries before it
\* in traversal order (begin lines of enclosing blocks, close lines of finished ones)
Preceding(block) ==
    IF block = <<>> THEN [hit |-> FALSE, n |-> 0]
    ELSE LET v == Head(block)[2]
             first == IF IsDict(v)
                      THEN LET in == Preceding(v.items)
                           IN  IF in.hit THEN [hit |-> TRUE, n |-> 1 + in.n]
                               ELSE [hit |-> FALSE, n |-> 2 + in.n]
                      ELSE IF Supported(v) THEN [hit |-> FALSE, n |-> 1]
                      ELSE [hit |-> TRUE, n |-> 0]
             rest == Preceding(Tail(block))
         IN  IF first.hit THEN first ELSE [hit |-> rest.hit, n |-> first.n + rest.n]

RECURSIVE FailingValue(_)
\* the value of the first failing entry of the tree
FailingValue(block) ==
    LET v == Head(block)[2]
    IN  IF IsDict(v)
        THEN IF Preceding(v.items).hit THEN FailingValue(v.items)
             ELSE FailingValue(Tail(block))
        ELSE IF Supported(v) THEN FailingValue(Tail(block)) ELSE v

NotSerializable ==
    <<" ","i","s"," ","n","o","t"," ","s","e","r","i","a","l","i","z","a","b","l","e">>

\* C4: a call that met an unsupported value ended with an error carrying that
\* value's repr, and its sink holds exactly the lines of the entries before the
\* failing one: they are the first lines of the output the tree gives once its
\* unsupported leaves are replaced, whole, and nothing of the failing entry,
\* of a later entry, of a close line or of the terminal token follows them.
C4_FailureLeavesPrefix ==
    (pc[1] = "failed" /\ error[1].exc = "TypeError") =>
        LET good == Lines(encode_alone(dialect, Repaired(module[1])).out)
            n == Preceding(module[1]).n
        IN  /\ Preceding(module[1]).hit
            /\ error[1].msg = repr(FirstUnsupported(FailingValue(module[1])))
                              \o NotSerializable
            /\ stream[1] = Concat([i \in 1..n |-> good[i] \o <<"\n">>])

C4_Witness ==
    /\ pc[1] = "failed"
    /\ error[1].exc = "TypeError"
    /\ Preceding(module[1]).n >= 2
    /\ Len(module[1]) >= 2
    /\ ~IsDict(module[1][1][2])
    /\ IsDict(module[1][2][2])

-----------------------------------------------------------------------------
(* C5 *)

IsBeginLine(d, line) == HasToken(line) /\ KeyOf(line) \in {group(d), object(d)}

IsCloseLine(d, line) ==
    IF d = "Cube" THEN Stripped(line) \in {end_group(d), end_object(d)}
    ELSE HasToken(line) /\ KeyOf(line) \in {end_group(d), end_object(d)}

\* the close token that matches a begin token
CloseFor(d, begin) == IF begin = group(d) THEN end_group(d) ELSE end_object(d)

RECURSIVE WellNested(_, _, _)
\* every line stands at the level of the blocks open around it; a close line
\* closes the block opened last, with its family's token, at its level, and
\* (where the close line names the block) with its name; no block stays open
WellNested(d, lines, open) ==
    IF lines = <<>> THEN open = <<>>
    ELSE LET line == Head(lines)
         IN  IF IsCloseLine(d, line)
             THEN /\ open # <<>>
                  /\ LET top == open[Len(open)]
                     IN  /\ LevelOf(line) = top.level
                         /\ LevelOf(line) = Len(open) - 1
                         /\ IF d = "Cube"
                            THEN Stripped(line) = CloseFor(d, top.begin)
                            ELSE /\ KeyOf(line) = CloseFor(d, top.begin)
                                 /\ ValueOf(line) = top.name
                  /\ WellNested(d, Tail(lines), SubSeq(open, 1, Len(open) - 1))
             ELSE /\ LevelOf(line) = Len(open)
                  /\ IF IsBeginLine(d, line)
                     THEN WellNested(d, Tail(lines),
                                 Append(open, [begin |-> KeyOf(line),
                                               level |-> LevelOf(line),
                                               name |-> ValueOf(line)]))
                     ELSE WellNested(d, Tail(lines), open)

CountLines(lines, P(_)) == Cardinality({i \in 1..Len(lines) : P(lines[i])})

\* C5: in a finished output every group or object of the tree has one begin
\* line and one close line of its family at the same level, properly nested;
\* when the terminal token is written no block is open.
C5_BeginCloseMatched ==
    pc[1] = "done" =>
        LET ls == BodyLines(stream[1])
            IsBegin(l) == IsBeginLine(dialect, l)
            IsClose(l) == IsCloseLine(dialect, l)
        IN  /\ WellNested(dialect, ls, <<>>)
            /\ CountLines(ls, IsBegin) = Containers(module[1])
            /\ CountLines(ls, IsClose) = Containers(module[1])

C5_Witness ==
    /\ pc[1] = "done"
    /\ dialect = "PDS3"
    /\ module[1] = <<<<K_A, Group(<<<<K_LONGKEY,
                                     Object(<<<<K_A, Integer(1)>>>>)>>>>)>>>>

-----------------------------------------------------------------------------
(* C6 *)

RECURSIVE DefaultText(_, _)
\* the text the Default dialect is to give for a mapping at a nesting level
DefaultText(block, level) ==
    IF block = <<>> THEN <<>>
    ELSE LET key == encode_utf8(Head(block)[1])
             v == Head(block)[2]
             family == IF v.kind = "group" THEN <<"G","R","O","U","P">>
                       ELSE <<"O","B","J","E","C","T">>
             this ==
                IF IsDict(v)
                THEN Spaces(2 * level) \o <<"B","E","G","I","N","_">> \o family
                        \o <<" ", "=", " ">> \o key \o <<"\n">>
                     \o DefaultText(v.items, level + 1)
                     \o Spaces(2 * level) \o <<"E","N","D","_">> \o family
                        \o <<" ", "=", " ">> \o key \o <<"\n">>
                ELSE Spaces(2 * level) \o key \o <<" ", "=", " ">>
                     \o encode_value(v).text \o <<"\n">>
         IN  this \o DefaultText(Tail(block), level)

\* A = 1\nBEGIN_GROUP = X\n  B = 2\nEND_GROUP = X\nEND
ExampleGroupText ==
    <<"A", " ", "=", " ", "1", "\n",
      "B","E","G","I","N","_","G","R","O","U","P", " ", "=", " ", "X", "\n",
      " ", " ", "B", " ", "=", " ", "2", "\n",
      "E","N","D","_","G","R","O","U","P", " ", "=", " ", "X", "\n",
      "E","N","D">>

\* C6: a finished Default output is, entry by entry in order, an assignment
\* line or a BEGIN_GROUP / BEGIN_OBJECT line, the body one level deeper and the
\* END_GROUP / END_OBJECT line, followed by END with no line break after it;
\* the example tree gives exactly the example text.
C6_DefaultLayout ==
    (dialect = "Default" /\ pc[1] = "done") =>
        /\ stream[1] = DefaultText(module[1], 0) \o <<"E","N","D">>
        /\ module[1] = ExampleGroupTree => stream[1] = ExampleGroupText

C6_Witness ==
    /\ dialect = "Default"
    /\ pc[1] = "done"
    /\ module[1] = ExampleGroupTree
    /\ stream[1] = ExampleGroupText

-----------------------------------------------------------------------------
(* C7 *)

RECURSIVE CubeCloseLines(_, _)
\* the close lines the Cube dialect is to give, in the order the blocks end
CubeCloseLines(block, level) ==
    IF block = <<>> THEN <<>>
    ELSE LET v == Head(block)[2]
         IN  (IF IsDict(v)
              THEN CubeCloseLines(v.items, level + 1)
                   \o <<Spaces(2 * level)
                        \o (IF v.kind = "group"
                            THEN <<"E","n","d","_","G","r","o","u","p">>
                            ELSE <<"E","n","d","_","O","b","j","e","c","t">>)>>
              ELSE <<>>)
             \o CubeCloseLines(Tail(block), level)

RECURSIVE CubeBeginLines(_, _)
\* the begin lines the Cube dialect is to give, in the order the blocks begin
CubeBeginLines(block, level) ==
    IF block = <<>> THEN <<>>
    ELSE LET v == Head(block)[2]
         IN  (IF IsDict(v)
              THEN <<Spaces(2 * level)
                     \o (IF v.kind = "group" THEN <<"G","r","o","u","p">>
                         ELSE <<"O","b","j","e","c","t">>)
                     \o <<" ", "=", " ">> \o encode_utf8(Head(block)[1])>>
                   \o CubeBeginLines(v.items, level + 1)
              ELSE <<>>)
             \o CubeBeginLines(Tail(block), level)

StartsWith(s, prefix) == Len(s) >= Len(prefix) /\ SubSeq(s, 1, Len(prefix)) = prefix

\* C7: in a finished Cube output the lines without assignment token are exactly
\* the close lines, each the indent and End_Group or End_Object and nothing
\* else; no line with an assignment token starts with End; the begin lines
\* read Group = <name> / Object = <name>; the terminal token is End.
C7_CubeBareClose ==
    (dialect = "Cube" /\ pc[1] = "done") =>
        LET ls == BodyLines(stream[1])
            NoToken(l) == ~HasToken(l)
            IsBegin(l) == HasToken(l) /\ KeyOf(l) \in {<<"G","r","o","u","p">>,
                                                     <<"O","b","j","e","c","t">>}
        IN  /\ SelectSeq(ls, NoToken) = CubeCloseLines(module[1], 0)
            /\ SelectSeq(ls, IsBegin) = CubeBeginLines(module[1], 0)
            /\ \A i \in 1..Len(ls) :
                  HasToken(ls[i]) => ~StartsWith(Stripped(ls[i]), <<"E","n","d">>)
            /\ Lines(stream[1])[Len(ls) + 1] = <<"E","n","d">>

C7_Witness ==
    /\ dialect = "Cube"
    /\ pc[1] = "done"
    /\ \E i \in 1..Len(module[1]) :
          /\ module[1][i][2].kind = "group"
          /\ \E j \in 1..Len(module[1][i][2].items) :
                module[1][i][2].items[j][2].kind = "dict"

-----------------------------------------------------------------------------
(* C8 *)

ReportedPairs == {<<"True", "True">>, <<"True", "False">>, <<"False", "None">>}

\* C8: no failure of one profile on one file ends the run: every call of
\* pvl_flavor returns one of the pairs (True, True), (True, False),
\* (False, None), and main goes on to the profiles and files that remain.
C8_NeverAborts ==
    /\ mainpc # "aborted"
    /\ \A i \in 1..Len(results) : results[i][2] \in ReportedPairs
    /\ mainpc = "reported" =>
          /\ Len(results_list) = Len(files)
          /\ \A f \in 1..Len(results_list) : Len(results_list[f][2]) = Len(Flavors)

-----------------------------------------------------------------------------
(* C9 *)

RECURSIVE Statements(_, _)
\* the pairs of the tree in insertion order, each before the pairs nested in it
Statements(block, level) ==
    IF block = <<>> THEN <<>>
    ELSE LET v == Head(block)[2]
             one == [level |-> level, key |-> encode_utf8(Head(block)[1]),
                     kind |-> IF IsDict(v) THEN v.kind ELSE "assignment",
                     text |-> IF IsDict(v) THEN <<>> ELSE encode_value(v).text]
         IN  <<one>> \o (IF IsDict(v) THEN Statements(v.items, level + 1) ELSE <<>>)
             \o Statements(Tail(block), level)

\* the statement a line of the output begins
StatementOf(d, line) ==
    IF IsBeginLine(d, line)
    THEN [level |-> LevelOf(line), key |-> ValueOf(line),
          kind |-> IF KeyOf(line) = group(d) THEN "group" ELSE "dict", text |-> <<>>]
    ELSE [level |-> LevelOf(line), key |-> KeyOf(line),
          kind |-> "assignment", text |-> ValueOf(line)]

\* C9: a finished output holds one statement per pair of every mapping of the
\* tree, repeated keys included, in insertion order: read back line by line
\* (close lines aside) it names the pairs of the tree, level by level, in order.
C9_InsertionOrder ==
    pc[1] = "done" =>
        LET ls == BodyLines(stream[1])
            Opens(l) == ~IsCloseLine(dialect, l)
            opening == SelectSeq(ls, Opens)
        IN  [i \in 1..Len(opening) |-> StatementOf(dialect, opening[i])]
                = Statements(module[1], 0)

C9_Witness ==
    /\ pc[1] = "done"
    /\ Len(module[1]) = 3
    /\ module[1][1][1] = module[1][3][1]
    /\ module[1][1][1] # module[1][2][1]
    /\ IsDict(module[1][3][2])
    /\ ~IsDict(module[1][1][2])

-----------------------------------------------------------------------------
(* C10 *)

\* C10: a call on a tree whose leaves are all of supported kinds never fails,
\* whether or not the tree or a mapping nested in it is empty; the empty tree
\* gives the terminal token alone.
C10_EmptyMappingsEncode ==
    AllSupported(module[1]) =>
        /\ pc[1] # "failed"
        /\ (pc[1] = "done" /\ module[1] = <<>>) => stream[1] = end_statement(dialect)

====
